---- MODULE Spec2Model ----
(***************************************************************************)
(* A model of qc2tsv (src/qc2tsv/qc2tsv.py): Qc2Tsv.__init__ and           *)
(* Qc2Tsv.flatten_to_tsv.                                                  *)
(*                                                                         *)
(* Text is a sequence of characters. A JSON key is one character of text   *)
(* (keys are non-empty and hold neither the separator, the delimiter, a    *)
(* quote nor a newline); the five-character separator '*_:_*' is one       *)
(* character of its own. A scalar is text. A row (a JSON object) is the    *)
(* sequence of its leaves in dict order, each leaf a record                *)
(* [k |-> path of keys, v |-> text]; how pandas prints a number is not     *)
(* modelled. None is the empty sequence, a given argument a sequence of    *)
(* one element. Columns come in first-seen order.                          *)
(***************************************************************************)
EXTENDS Integers, Sequences, FiniteSets, TLC

VARIABLES qcs, row_split_rules, merge_split_rows, collapse_header, transpose,
          self_jsons, pc, splitted_jsons, merged_jsons, jsons, idx,
          header, contents, header_matrix, header_matrix_t,
          contents_matrix, final_matrix, result

vars == <<qcs, row_split_rules, merge_split_rows, collapse_header, transpose,
          self_jsons, pc, splitted_jsons, merged_jsons, jsons, idx,
          header, contents, header_matrix, header_matrix_t,
          contents_matrix, final_matrix, result>>

\* ---------------------------------------------------------------- bounds
MaxDocs == 2
MaxCols == 3
MaxDepth == 3
MaxDim == 2

\* ------------------------------------------------------------- constants
SEP == "*_:_*"
SEP_COLLAPSED_HEADER == "."
delim == "\t"
NL == "\n"
QUOTE == "\""
EMPTY == <<>>

\* ------------------------------------------------------- python builtins
RECURSIVE Concat(_)
Concat(ss) == IF ss = <<>> THEN <<>> ELSE Head(ss) \o Concat(Tail(ss))

Max(S) == CHOOSE m \in S : \A n \in S : n <= m

Last(s) == s[Len(s)]

Contains(s, c) == \E i \in 1..Len(s) : s[i] = c

\* str.join: the items with sep between them
RECURSIVE StrJoin(_, _)
StrJoin(sep, items) ==
    IF items = <<>> THEN <<>>
    ELSE IF Len(items) = 1 THEN items[1]
    ELSE items[1] \o <<sep>> \o StrJoin(sep, Tail(items))

\* str.split(sep): never empty, '' gives ['']
RECURSIVE SplitAcc(_, _, _)
SplitAcc(s, sep, cur) ==
    IF s = <<>> THEN <<cur>>
    ELSE IF Head(s) = sep THEN <<cur>> \o SplitAcc(Tail(s), sep, <<>>)
    ELSE SplitAcc(Tail(s), sep, Append(cur, Head(s)))

StrSplit(s, sep) == SplitAcc(s, sep, <<>>)

\* str.split(sep, 1): at most one split
RECURSIVE SplitOnceAcc(_, _, _)
SplitOnceAcc(s, sep, cur) ==
    IF s = <<>> THEN <<cur>>
    ELSE IF Head(s) = sep THEN <<cur, Tail(s)>>
    ELSE SplitOnceAcc(Tail(s), sep, Append(cur, Head(s)))

StrSplitOnce(s, sep) == SplitOnceAcc(s, sep, <<>>)

\* str.strip(c)
RECURSIVE LStrip(_, _)
LStrip(s, c) == IF s # <<>> /\ Head(s) = c THEN LStrip(Tail(s), c) ELSE s

RECURSIVE RStrip(_, _)
RStrip(s, c) ==
    IF s # <<>> /\ Last(s) = c THEN RStrip(SubSeq(s, 1, Len(s) - 1), c) ELSE s

StrStrip(s, c) == RStrip(LStrip(s, c), c)

\* [[m[j][i] for j in range(len(m))] for i in range(len(m[0]))]
\* m[j][i] past the end of row j is an IndexError
TransposeRaises(m) == m = <<>> \/ \E j \in 1..Len(m) : Len(m[j]) < Len(m[1])

\* every cell read from column 0
TransposeBug(m) == [i \in 1..Len(m[1]) |-> [j \in 1..Len(m) |-> m[j][1]]]

TransposeMatrix(m) == [i \in 1..Len(m[1]) |-> [j \in 1..Len(m) |-> m[j][i]]]

\* ------------------------------------------------- rows (nested dicts)
Leaf(path, val) == [k |-> path, v |-> val]

\* d[path] = val on a flat dict: a new key goes last, an old one keeps its place
DictSet(d, path, val) ==
    IF \E i \in 1..Len(d) : d[i].k = path
    THEN [i \in 1..Len(d) |-> IF d[i].k = path THEN Leaf(path, val) ELSE d[i]]
    ELSE Append(d, Leaf(path, val))

\* the keys of a dict, in dict order
RECURSIVE TopKeysAcc(_, _)
TopKeysAcc(d, acc) ==
    IF d = <<>> THEN acc
    ELSE IF Head(d).k = <<>> \/ Contains(acc, Head(Head(d).k))
         THEN TopKeysAcc(Tail(d), acc)
         ELSE TopKeysAcc(Tail(d), Append(acc, Head(Head(d).k)))

TopKeys(d) == TopKeysAcc(d, <<>>)

\* key in d
HasKey(d, key) == \E i \in 1..Len(d) : d[i].k # <<>> /\ Head(d[i].k) = key

\* d[key]: the leaves below key, their paths relative to it (a scalar is one
\* leaf with the empty path)
Sub(d, key) ==
    LET Below(e) == e.k # <<>> /\ Head(e.k) = key
        sel == SelectSeq(d, Below)
    IN  [i \in 1..Len(sel) |-> Leaf(Tail(sel[i].k), sel[i].v)]

IsDict(sub) == sub # <<>> /\ \A i \in 1..Len(sub) : sub[i].k # <<>>

Prefixed(key, sub) == [i \in 1..Len(sub) |-> Leaf(<<key>> \o sub[i].k, sub[i].v)]

\* d[key] = sub, where key is in d: the value changes, the key keeps its place
RECURSIVE ReplaceKey(_, _, _, _)
ReplaceKey(d, key, sub, placed) ==
    IF d = <<>> THEN <<>>
    ELSE IF Head(d).k # <<>> /\ Head(Head(d).k) = key
         THEN (IF placed THEN <<>> ELSE Prefixed(key, sub))
              \o ReplaceKey(Tail(d), key, sub, TRUE)
         ELSE <<Head(d)>> \o ReplaceKey(Tail(d), key, sub, placed)

\* d[key] = sub
SetKey(d, key, sub) ==
    IF HasKey(d, key) THEN ReplaceKey(d, key, sub, FALSE)
    ELSE d \o Prefixed(key, sub)

\* caper.dict_tool.merge_dict(a, b): b merged into a, b winning a conflict
RECURSIVE merge_dict(_, _), MergeKeys(_, _, _)
MergeKeys(a, b, keys) ==
    IF keys = <<>> THEN a
    ELSE LET key == Head(keys)
             sa  == Sub(a, key)
             sb  == Sub(b, key)
             a1  == IF HasKey(a, key)
                    THEN IF IsDict(sa) /\ IsDict(sb)
                         THEN ReplaceKey(a, key, merge_dict(sa, sb), FALSE)
                         ELSE IF sa = sb THEN a
                         ELSE ReplaceKey(a, key, sb, FALSE)
                    ELSE a \o Prefixed(key, sb)
         IN  MergeKeys(a1, b, Tail(keys))

merge_dict(a, b) == MergeKeys(a, b, TopKeys(b))

\* caper.dict_tool.unflatten_dict then flatten_dict: the leaves grouped under
\* their parents, a key at the place of its first leaf
RECURSIVE unflatten_dict(_), UnflattenKeys(_, _)
UnflattenKeys(d, keys) ==
    IF keys = <<>> THEN <<>>
    ELSE LET sub == Sub(d, Head(keys))
         IN  (IF IsDict(sub) THEN Prefixed(Head(keys), unflatten_dict(sub))
              ELSE Prefixed(Head(keys), <<Last(sub)>>))
             \o UnflattenKeys(d, Tail(keys))

unflatten_dict(d) == UnflattenKeys(d, TopKeys(d))

\* re.findall(rule_regex, k): a regex is the set of the keys it matches
Matches(regex, key) == key \in regex

\* the keys of a path that the regex does not match, and those it does
NewKey(path, regex) ==
    LET Keep(key) == ~Matches(regex, key) IN SelectSeq(path, Keep)

MatchedKeys(path, regex) ==
    LET Hit(key) == Matches(regex, key) IN SelectSeq(path, Hit)

\* d_each_rule[(rule_name, k)][new_k] = v
AddMatch(groups, rule_name, key, path, val) ==
    IF \E i \in 1..Len(groups) : groups[i].rule = rule_name /\ groups[i].key = key
    THEN [i \in 1..Len(groups) |->
            IF groups[i].rule = rule_name /\ groups[i].key = key
            THEN [groups[i] EXCEPT !.d = DictSet(groups[i].d, path, val)]
            ELSE groups[i]]
    ELSE Append(groups, [rule |-> rule_name, key |-> key,
                         d |-> <<Leaf(path, val)>>])

\* the loops of split_dict over the rules and over the leaves of the document
RECURSIVE ScanLeaves(_, _, _)
ScanLeaves(d_f, rule, groups) ==
    IF d_f = <<>> THEN groups
    ELSE LET e   == Head(d_f)
             hit == MatchedKeys(e.k, rule[2])
         IN  ScanLeaves(Tail(d_f), rule,
                        IF hit = <<>> THEN groups
                        ELSE AddMatch(groups, rule[1], Last(hit),
                                      NewKey(e.k, rule[2]), e.v))

RECURSIVE ScanRules(_, _, _)
ScanRules(d_f, rules, groups) ==
    IF rules = <<>> THEN groups
    ELSE ScanRules(d_f, Tail(rules), ScanLeaves(d_f, Head(rules), groups))

\* for rule_name, rule_regex in rules: a rule that is no pair is a ValueError
SplitRaises(rules) ==
    rules # <<>> /\ \E i \in 1..Len(rules[1]) : Len(rules[1][i]) # 2

\* caper.dict_tool.split_dict(d, rules); rules is <<>> for None
split_dict(d, rules) ==
    IF rules = <<>> THEN <<d>>
    ELSE LET groups  == ScanRules(d, rules[1], <<>>)
             Caught(e) == \E i \in 1..Len(rules[1]) :
                             MatchedKeys(e.k, rules[1][i][2]) # <<>>
             Others(e) == ~Caught(e)
             d_others == SelectSeq(d, Others)
             rows == [i \in 1..Len(groups) |->
                        SetKey(unflatten_dict(groups[i].d), groups[i].rule,
                               <<Leaf(<<>>, groups[i].key)>>)]
         IN  IF d_others # <<>> THEN <<unflatten_dict(d_others)>> \o rows
             ELSE rows

\* ------------------------------------------------ lines 58-80: row merge
\* lines 61-69: the last row without rule_name, the last row whose rule_name
\* is first_key, and the rows that are neither (None is <<>>)
RECURSIVE Partition(_, _, _, _)
Partition(rows, rule_name, first_key, acc) ==
    IF rows = <<>> THEN acc
    ELSE LET j_ == Head(rows)
         IN  Partition(Tail(rows), rule_name, first_key,
                IF ~HasKey(j_, rule_name)
                THEN [acc EXCEPT !.j_not_caught = <<j_>>]
                ELSE IF Sub(j_, rule_name) = <<Leaf(<<>>, first_key)>>
                THEN [acc EXCEPT !.j_with_first_key = <<j_>>]
                ELSE [acc EXCEPT !.merged_jsons = Append(@, j_)])

\* lines 70-77
MergeSplitRows(rows, rule_name, first_key) ==
    LET p == Partition(rows, rule_name, first_key,
                       [j_not_caught |-> <<>>, j_with_first_key |-> <<>>,
                        merged_jsons |-> <<>>])
    IN  IF p.j_not_caught # <<>> /\ p.j_with_first_key # <<>>
        THEN <<merge_dict(p.j_not_caught[1], p.j_with_first_key[1])>>
             \o p.merged_jsons
        ELSE IF p.j_not_caught # <<>> THEN p.j_not_caught \o p.merged_jsons
        ELSE IF p.j_with_first_key # <<>>
        THEN p.j_with_first_key \o p.merged_jsons
        ELSE p.merged_jsons

\* line 60: rule_name, first_key = merge_split_rows.split(':', 1)
MergeRaises(directive) ==
    directive # <<>> /\ Len(StrSplitOnce(directive[1], ":")) # 2

\* lines 58-79: the rows of one document after the merge
MergedRows(rows, directive) ==
    IF directive = <<>> THEN rows
    ELSE LET parts == StrSplitOnce(directive[1], ":")
         IN  MergeSplitRows(rows, parts[1], parts[2])

\* line 72: merge_dict changes j_not_caught, a row of splitted_jsons, in place
RowsAfterMerge(rows, directive) ==
    IF directive = <<>> THEN rows
    ELSE LET parts == StrSplitOnce(directive[1], ":")
             p == Partition(rows, parts[1], parts[2],
                            [j_not_caught |-> <<>>, j_with_first_key |-> <<>>,
                             merged_jsons |-> <<>>])
             g == Max({i \in 1..Len(rows) : ~HasKey(rows[i], parts[1])})
         IN  IF p.j_not_caught # <<>> /\ p.j_with_first_key # <<>>
             THEN [rows EXCEPT ![g] = merge_dict(p.j_not_caught[1],
                                                 p.j_with_first_key[1])]
             ELSE rows

\* line 80: jsons.extend(merged_jsons)
\* the rows put in front
ExtendFront(rows, more) == more \o rows

Extend(rows, more) == rows \o more

\* --------------------------------------- lines 86-88: normalize and to_csv
\* pandas nested_to_record: the scalars of the top level keep their place,
\* the leaves of nested objects follow them
FlatRecord(row) ==
    LET Top(e) == Len(e.k) = 1
        Deep(e) == Len(e.k) > 1
    IN  SelectSeq(row, Top) \o SelectSeq(row, Deep)

\* the columns of the frame: the joined paths in first-seen order
RECURSIVE ColumnsAcc(_, _, _)
ColumnsAcc(leaves, sep, acc) ==
    IF leaves = <<>> THEN acc
    ELSE LET name == StrJoin(sep, Head(leaves).k)
         IN  ColumnsAcc(Tail(leaves), sep,
                        IF Contains(acc, name) THEN acc ELSE Append(acc, name))

Columns(rows, sep) ==
    ColumnsAcc(Concat([r \in 1..Len(rows) |-> FlatRecord(rows[r])]), sep, <<>>)

\* the cell of a row in a column: its value, '' (NaN) when the row lacks it
Cell(row, name, sep) ==
    LET Named(e) == StrJoin(sep, e.k) = name
        hit == SelectSeq(row, Named)
    IN  IF hit = <<>> THEN EMPTY ELSE Last(hit).v

\* pandas.io.json.json_normalize(jsons, sep=sep)
json_normalize(rows, sep) ==
    LET cols == Columns(rows, sep)
    IN  [columns |-> cols,
         values |-> [r \in 1..Len(rows) |->
                       [c \in 1..Len(cols) |-> Cell(rows[r], cols[c], sep)]]]

\* csv.writer, QUOTE_MINIMAL: a field that holds the delimiter, a quote or a
\* newline is quoted, its quotes doubled
NeedsQuote(field) ==
    Contains(field, delim) \/ Contains(field, QUOTE) \/ Contains(field, NL)

RECURSIVE DoubleQuotes(_)
DoubleQuotes(field) ==
    IF field = <<>> THEN <<>>
    ELSE (IF Head(field) = QUOTE THEN <<QUOTE, QUOTE>> ELSE <<Head(field)>>)
         \o DoubleQuotes(Tail(field))

CsvField(field) ==
    IF NeedsQuote(field) THEN <<QUOTE>> \o DoubleQuotes(field) \o <<QUOTE>>
    ELSE field

\* a record of one empty field is written as ""
CsvRecord(fields) ==
    IF fields = <<EMPTY>> THEN <<QUOTE, QUOTE>>
    ELSE StrJoin(delim, [i \in 1..Len(fields) |-> CsvField(fields[i])])

\* df.to_csv(sep=self._delim, index=False)
to_csv(df) ==
    LET records == <<df.columns>> \o df.values
    IN  Concat([i \in 1..Len(records) |-> CsvRecord(records[i]) \o <<NL>>])

\* line 87
Tsv(rows, sep) == StrStrip(to_csv(json_normalize(rows, sep)), NL)

\* line 122
ContentsMatrix(text) ==
    LET rows == StrSplit(text, NL)
    IN  [r \in 1..Len(rows) |-> StrSplit(rows[r], delim)]

\* line 92
\* the header line split on the separator
CollapsedHeaderSplit(hdr) == <<StrSplit(hdr, SEP_COLLAPSED_HEADER)>>

CollapsedHeader(hdr) == <<StrSplit(hdr, delim)>>

\* line 128
JoinMatrix(m) ==
    StrJoin(NL, [r \in 1..Len(m) |-> StrJoin(delim, m[r])])

\* -------------------------------------------------- header reconstruction
\* line 96
HeaderSparseMatrix(hdr, sep) ==
    LET cols == StrSplit(hdr, delim)
    IN  [c \in 1..Len(cols) |-> StrSplit(cols[c], sep)]

\* line 97
NumHeaderLines(sparse) == Max({Len(sparse[c]) : c \in 1..Len(sparse)})

\* lines 103-107: m = n*['']; m[:len(cols)-1] = cols[:-1]; m[-1] = cols[-1]
\* all segments aligned to the top
AlignColumnBug(cols, n) ==
    LET k == Len(cols)
    IN  cols \o [i \in 1..(n - k) |-> EMPTY]

AlignColumn(cols, n) ==
    LET k  == Len(cols) - 1
        m0 == [i \in 1..n |-> EMPTY]
        m1 == SubSeq(cols, 1, k) \o SubSeq(m0, k + 1, n)
    IN  [m1 EXCEPT ![n] = Last(cols)]

\* lines 101-108
HeaderMatrix(sparse) ==
    [c \in 1..Len(sparse) |-> AlignColumn(sparse[c], NumHeaderLines(sparse))]

\* lines 117-121: blank the cells equal to col from j on, stop at the first other
RECURSIVE BlankRun(_, _, _)
\* empty cells skipped instead of ending the run
BlankRunBug(row, col, j) ==
    IF j > Len(row) THEN row
    ELSE IF row[j] = col \/ row[j] = EMPTY
         THEN BlankRun([row EXCEPT ![j] = EMPTY], col, j + 1)
         ELSE row

BlankRun(row, col, j) ==
    IF j > Len(row) THEN row
    ELSE IF col = row[j] THEN BlankRun([row EXCEPT ![j] = EMPTY], col, j + 1)
    ELSE row

\* lines 114-121, from column i on
RECURSIVE DedupFrom(_, _)
DedupFrom(row, i) ==
    IF i > Len(row) THEN row
    ELSE IF row[i] = EMPTY THEN DedupFrom(row, i + 1)
    ELSE DedupFrom(BlankRun(row, row[i], i + 1), i + 1)

DedupRow(row) == DedupFrom(row, 1)

\* lines 113-121: every row but the last
DedupRows(m) ==
    [r \in 1..Len(m) |-> IF r < Len(m) THEN DedupRow(m[r]) ELSE m[r]]

\* ------------------------------------------------------------ the inputs
\* {"qc": "1", "rep1": {"x": "10"}}
DocRep1 ==
    <<Leaf(<<<<"qc">>>>, <<"1">>), Leaf(<<<<"rep1">>, <<"x">>>>, <<"10">>)>>

\* {"x": "0", "m": {"p": "1"}, "rep1": {"x": "10", "m": {"q": "2"}},
\*  "rep2": {"x": "20"}}
DocReps ==
    <<Leaf(<<<<"x">>>>, <<"0">>),
      Leaf(<<<<"m">>, <<"p">>>>, <<"1">>),
      Leaf(<<<<"rep1">>, <<"x">>>>, <<"10">>),
      Leaf(<<<<"rep1">>, <<"m">>, <<"q">>>>, <<"2">>),
      Leaf(<<<<"rep2">>, <<"x">>>>, <<"20">>)>>

\* {"a": {"x": "1", "y": "2"}, "b": {"z": "3"}}
DocNested ==
    <<Leaf(<<<<"a">>, <<"x">>>>, <<"1">>),
      Leaf(<<<<"a">>, <<"y">>>>, <<"2">>),
      Leaf(<<<<"b">>, <<"z">>>>, <<"3">>)>>

\* {"a": "v\tw", "b": "1"}: a value that holds the delimiter
DocDelim ==
    <<Leaf(<<<<"a">>>>, <<"v", delim, "w">>), Leaf(<<<<"b">>>>, <<"1">>)>>

\* {"a": "v\nw", "b": "1"}: a value that holds a newline
DocNewline ==
    <<Leaf(<<<<"a">>>>, <<"v", NL, "w">>), Leaf(<<<<"b">>>>, <<"1">>)>>

DocSet == {DocRep1, DocReps, DocNested, DocDelim, DocNewline}

\* '^(rep|ctl)\d+$' on the keys of DocSet
RegexRep == {<<"rep1">>, <<"rep2">>}

\* row_split_rules: None, [('replicate', '^(rep|ctl)\d+$')], and the rule
\* string 'replicate' with no ':' (main: tuple(i.split(':', 1)))
RuleSets ==
    {<<>>, <<<<<<<<"replicate">>, RegexRep>>>>>>, <<<<<<<<"replicate">>>>>>>>}

\* merge_split_rows: None, 'replicate:rep1', 'other:rep1', 'replicate'
MergeDirectives ==
    {<<>>, <<<<"replicate", ":", "rep1">>>>, <<<<"other", ":", "rep1">>>>,
     <<<<"replicate">>>>}

RECURSIVE SeqsUpTo(_, _)
SeqsUpTo(S, n) ==
    IF n = 0 THEN {<<>>}
    ELSE {<<>>} \cup {<<x>> \o s : x \in S, s \in SeqsUpTo(S, n - 1)}

\* the keys of nested objects, and the keys of scalars
KeyNames == {"a", "b"}

LeafNames == {"x"}

\* the column lists [a.x, a.y, b.z] and [a.x, q, a.y]
ExampleSiblings == <<<<"a", SEP, "x">>, <<"a", SEP, "y">>, <<"b", SEP, "z">>>>

ExampleUnnested == <<<<"a", SEP, "x">>, <<"q">>, <<"a", SEP, "y">>>>

RECURSIVE PathsOfLen(_)
PathsOfLen(n) ==
    IF n = 1 THEN {<<k>> : k \in LeafNames}
    ELSE {<<k>> \o p : k \in KeyNames, p \in PathsOfLen(n - 1)}

Paths == UNION {PathsOfLen(n) : n \in 1..MaxDepth}

ColumnNames == {StrJoin(SEP, [i \in 1..Len(p) |-> <<p[i]>>]) : p \in Paths}

RECURSIVE DistinctSeqs(_, _)
DistinctSeqs(S, n) ==
    IF n = 0 THEN {<<>>}
    ELSE {<<>>} \cup
         UNION {{<<x>> \o s : s \in {t \in DistinctSeqs(S, n - 1) :
                                       \A i \in 1..Len(t) : t[i] # x}} : x \in S}

Idle ==
    /\ qcs = <<>> /\ row_split_rules = <<>> /\ merge_split_rows = <<>>
    /\ self_jsons = <<>> /\ splitted_jsons = <<>> /\ merged_jsons = <<>>
    /\ jsons = <<>> /\ idx = 0 /\ contents = <<>>
    /\ contents_matrix = <<>> /\ final_matrix = <<>> /\ result = <<>>
    /\ transpose = FALSE

\* ---------------------------------------------------------------- actions
\* lines 90-111
BuildHeader ==
    /\ pc = "header"
    /\ IF collapse_header
       THEN /\ header_matrix' = <<>>
            /\ header_matrix_t' = CollapsedHeader(header)
            /\ pc' = "assemble"
       ELSE /\ header_matrix' = HeaderMatrix(HeaderSparseMatrix(header, SEP))
            /\ header_matrix_t' = TransposeMatrix(header_matrix')
            /\ pc' = "dedup"
    /\ UNCHANGED <<qcs, row_split_rules, merge_split_rows, collapse_header,
                   transpose, self_jsons, splitted_jsons, merged_jsons, jsons,
                   idx, header, contents, contents_matrix, final_matrix,
                   result>>

\* lines 112-121
DedupHeader ==
    /\ pc = "dedup"
    /\ header_matrix_t' = DedupRows(header_matrix_t)
    /\ pc' = "assemble"
    /\ UNCHANGED <<qcs, row_split_rules, merge_split_rows, collapse_header,
                   transpose, self_jsons, splitted_jsons, merged_jsons, jsons,
                   idx, header, contents, header_matrix, contents_matrix,
                   final_matrix, result>>

\* lines 37-41: one source is read and appended
LoadDoc ==
    /\ pc = "init"
    /\ Len(self_jsons) < Len(qcs)
    /\ self_jsons' = Append(self_jsons, qcs[Len(self_jsons) + 1])
    /\ UNCHANGED <<qcs, row_split_rules, merge_split_rows, collapse_header,
                   transpose, pc, splitted_jsons, merged_jsons, jsons, idx,
                   header, contents, header_matrix, header_matrix_t,
                   contents_matrix, final_matrix, result>>

\* line 52: flatten_to_tsv is called on the constructed converter
CallFlatten ==
    /\ pc = "init"
    /\ Len(self_jsons) = Len(qcs)
    /\ jsons' = <<>>
    /\ idx' = 0
    /\ pc' = "loop"
    /\ UNCHANGED <<qcs, row_split_rules, merge_split_rows, collapse_header,
                   transpose, self_jsons, splitted_jsons, merged_jsons,
                   header, contents, header_matrix, header_matrix_t,
                   contents_matrix, final_matrix, result>>

\* lines 54-56: the next document is split
SplitDoc ==
    /\ pc = "loop"
    /\ idx < Len(self_jsons)
    /\ idx' = idx + 1
    /\ IF SplitRaises(row_split_rules)
       THEN pc' = "raised" /\ UNCHANGED splitted_jsons
       ELSE /\ splitted_jsons' = split_dict(self_jsons[idx + 1], row_split_rules)
            /\ pc' = "merge"
    /\ UNCHANGED <<qcs, row_split_rules, merge_split_rows, collapse_header,
                   transpose, self_jsons, merged_jsons, jsons,
                   header, contents, header_matrix, header_matrix_t,
                   contents_matrix, final_matrix, result>>

\* lines 58-80: the rows of the document are merged and appended
MergeRows ==
    /\ pc = "merge"
    /\ IF MergeRaises(merge_split_rows)
       THEN pc' = "raised" /\ UNCHANGED <<splitted_jsons, merged_jsons, jsons>>
       ELSE /\ merged_jsons' = MergedRows(splitted_jsons, merge_split_rows)
            /\ splitted_jsons' = RowsAfterMerge(splitted_jsons, merge_split_rows)
            /\ jsons' = Extend(jsons, merged_jsons')
            /\ pc' = "loop"
    /\ UNCHANGED <<qcs, row_split_rules, merge_split_rows, collapse_header,
                   transpose, self_jsons, idx,
                   header, contents, header_matrix, header_matrix_t,
                   contents_matrix, final_matrix, result>>

\* lines 82-88: the frame is written as text, its first line is the header
Normalize ==
    /\ pc = "loop"
    /\ idx = Len(self_jsons)
    /\ LET sep == IF collapse_header THEN SEP_COLLAPSED_HEADER ELSE SEP
           parts == StrSplitOnce(Tsv(jsons, sep), NL)
       IN  IF Len(parts) # 2
           THEN pc' = "raised" /\ UNCHANGED <<header, contents>>
           ELSE /\ header' = parts[1]
                /\ contents' = parts[2]
                /\ pc' = "header"
    /\ UNCHANGED <<qcs, row_split_rules, merge_split_rows, collapse_header,
                   transpose, self_jsons, splitted_jsons, merged_jsons, jsons,
                   idx, header_matrix, header_matrix_t,
                   contents_matrix, final_matrix, result>>

\* lines 122-123
Assemble ==
    /\ pc = "assemble"
    /\ contents_matrix' = ContentsMatrix(contents)
    /\ final_matrix' = header_matrix_t \o contents_matrix'
    /\ pc' = "transpose"
    /\ UNCHANGED <<qcs, row_split_rules, merge_split_rows, collapse_header,
                   transpose, self_jsons, splitted_jsons, merged_jsons, jsons,
                   idx, header, contents, header_matrix, header_matrix_t,
                   result>>

\* lines 124-127
TransposeFinal ==
    /\ pc = "transpose"
    /\ IF transpose
       THEN IF TransposeRaises(final_matrix)
            THEN pc' = "raised" /\ UNCHANGED final_matrix
            ELSE final_matrix' = TransposeMatrix(final_matrix) /\ pc' = "join"
       ELSE pc' = "join" /\ UNCHANGED final_matrix
    /\ UNCHANGED <<qcs, row_split_rules, merge_split_rows, collapse_header,
                   transpose, self_jsons, splitted_jsons, merged_jsons, jsons,
                   idx, header, contents, header_matrix, header_matrix_t,
                   contents_matrix, result>>

\* line 128
Return ==
    /\ pc = "join"
    /\ result' = JoinMatrix(final_matrix)
    /\ pc' = "done"
    /\ UNCHANGED <<qcs, row_split_rules, merge_split_rows, collapse_header,
                   transpose, self_jsons, splitted_jsons, merged_jsons, jsons,
                   idx, header, contents, header_matrix, header_matrix_t,
                   contents_matrix, final_matrix>>

\* the transpose step of lines 126-127 applied to its own result
TransposeAgain ==
    /\ pc = "join"
    /\ final_matrix' = TransposeMatrix(final_matrix)
    /\ pc' = "again"
    /\ UNCHANGED <<qcs, row_split_rules, merge_split_rows, collapse_header,
                   transpose, self_jsons, splitted_jsons, merged_jsons, jsons,
                   idx, header, contents, header_matrix, header_matrix_t,
                   contents_matrix, result>>

Init ==
    /\ qcs \in SeqsUpTo(DocSet, MaxDocs)
    /\ row_split_rules \in RuleSets
    /\ merge_split_rows \in MergeDirectives
    /\ collapse_header \in BOOLEAN
    /\ transpose \in BOOLEAN
    /\ pc = "init"
    /\ self_jsons = <<>> /\ splitted_jsons = <<>> /\ merged_jsons = <<>>
    /\ jsons = <<>> /\ idx = 0 /\ header = <<>> /\ contents = <<>>
    /\ header_matrix = <<>> /\ header_matrix_t = <<>>
    /\ contents_matrix = <<>> /\ final_matrix = <<>> /\ result = <<>>

Next ==
    \/ LoadDoc
    \/ CallFlatten
    \/ SplitDoc
    \/ MergeRows
    \/ Normalize
    \/ BuildHeader
    \/ DedupHeader
    \/ Assemble
    \/ TransposeFinal
    \/ Return

Spec == Init /\ [][Next]_vars

\* the header of any list of distinct column names
InitHeader ==
    /\ Idle
    /\ pc = "header"
    /\ collapse_header = FALSE
    /\ \E names \in DistinctSeqs(ColumnNames, MaxCols)
                      \cup {ExampleSiblings, ExampleUnnested} :
          /\ names # <<>>
          /\ header = StrJoin(delim, names)
    /\ header_matrix = <<>>
    /\ header_matrix_t = <<>>

NextHeader == BuildHeader \/ DedupHeader

SpecHeader == InitHeader /\ [][NextHeader]_vars

\* any rectangular matrix of header rows followed by data rows
Cells == {EMPTY, <<"a">>}

InitTranspose ==
    /\ qcs = <<>> /\ row_split_rules = <<>> /\ merge_split_rows = <<>>
    /\ self_jsons = <<>> /\ splitted_jsons = <<>> /\ merged_jsons = <<>>
    /\ jsons = <<>> /\ idx = 0 /\ header = <<>> /\ contents = <<>>
    /\ header_matrix = <<>> /\ result = <<>>
    /\ collapse_header = FALSE
    /\ transpose = TRUE
    /\ pc = "transpose"
    /\ \E r \in 1..(MaxDim + 1), c \in 1..MaxDim :
          \E m \in [1..r -> [1..c -> Cells]] :
             \E h \in 0..r :
                /\ header_matrix_t = SubSeq(m, 1, h)
                /\ contents_matrix = SubSeq(m, h + 1, r)
                /\ final_matrix = m

NextTranspose == TransposeFinal \/ TransposeAgain

SpecTranspose == InitTranspose /\ [][NextTranspose]_vars

\* ------------------------------------------------------------ the claims
\* the column names the header is built from, and their segments
HeaderCols == StrSplit(header, delim)

Segments(c) == StrSplit(HeaderCols[c], SEP)

NumSegments == Max({Len(Segments(c)) : c \in 1..Len(HeaderCols)})

MultiRowHeaderBuilt == pc \in {"dedup", "assemble"} /\ ~collapse_header

\* C1: in multi-row mode the header has R = max number of segments rows of
\* one cell per column; before deduplication column c holds segments[:-1] in
\* rows 0..len-2, segments[-1] in row R-1 and '' elsewhere; deduplication
\* leaves row R-1 alone, so the bottom cell of every column is its non-empty
\* leaf segment.
C1_HeaderShape ==
    MultiRowHeaderBuilt =>
        LET R == NumSegments
            C == Len(HeaderCols)
        IN  /\ Len(header_matrix_t) = R
            /\ \A r \in 1..R : Len(header_matrix_t[r]) = C
            /\ Len(header_matrix) = C
            /\ \A c \in 1..C :
                  LET seg == Segments(c)
                      n   == Len(seg)
                  IN  /\ Len(header_matrix[c]) = R
                      /\ \A r \in 1..R :
                            header_matrix[c][r] =
                               IF r = R THEN seg[n]
                               ELSE IF r <= n - 1 THEN seg[r]
                               ELSE EMPTY
                      /\ pc = "dedup" =>
                            \A r \in 1..R :
                               header_matrix_t[r][c] = header_matrix[c][r]
                      /\ header_matrix_t[R][c] = seg[n]
                      /\ header_matrix_t[R][c] # EMPTY

\* a three-row header after deduplication, with a two-segment column (its
\* middle cell empty) and a cell that deduplication blanked
C1_Witness ==
    /\ pc = "assemble" /\ ~collapse_header
    /\ Len(header_matrix_t) = 3
    /\ \E c \in 1..Len(header_matrix) :
          Len(Segments(c)) = 2 /\ header_matrix[c][2] = EMPTY
    /\ \E c \in 1..Len(header_matrix) :
          header_matrix_t[1][c] # header_matrix[c][1]

\* the cell of row r, column j before deduplication
Pre(r, j) == header_matrix[j][r]

\* C2 as stated: a cell is blanked when an identical non-empty cell lies to
\* its left with nothing but empty or identical cells in between (empty
\* cells do not stop the scan), so [a.x, q, a.y] gives ["a", "", ""].
C2_Original ==
    (pc = "assemble" /\ ~collapse_header) =>
        /\ \A r \in 1..(Len(header_matrix_t) - 1) :
              \A j \in 1..Len(header_matrix_t[r]) :
                 header_matrix_t[r][j] =
                    IF \E i \in 1..(j - 1) :
                          /\ Pre(r, i) = Pre(r, j)
                          /\ \A k \in (i + 1)..(j - 1) :
                                Pre(r, k) \in {EMPTY, Pre(r, i)}
                    THEN EMPTY
                    ELSE Pre(r, j)
        /\ HeaderCols = ExampleUnnested =>
              header_matrix_t[1] = <<<<"a">>, EMPTY, EMPTY>>

\* C2 amended: in every header row except the last a cell is blanked exactly
\* when it equals the cell directly to its left before deduplication: each
\* non-empty cell blanks the identical cells to its right up to the first
\* cell that holds any other value, the empty string included, so an empty
\* cell stops the scan. [a.x, a.y, b.z] gives ["a", "", "b"] and
\* [a.x, q, a.y] gives ["a", "", "a"].
C2_Dedup ==
    (pc = "assemble" /\ ~collapse_header) =>
        /\ \A r \in 1..(Len(header_matrix_t) - 1) :
              \A j \in 1..Len(header_matrix_t[r]) :
                 header_matrix_t[r][j] =
                    IF j > 1 /\ Pre(r, j - 1) = Pre(r, j)
                    THEN EMPTY
                    ELSE Pre(r, j)
        /\ HeaderCols = ExampleSiblings =>
              header_matrix_t[1] = <<<<"a">>, EMPTY, <<"b">>>>
        /\ HeaderCols = ExampleUnnested =>
              header_matrix_t[1] = <<<<"a">>, EMPTY, <<"a">>>>

\* the header of [a.x, q, a.y] after deduplication: the empty cell above q
\* stopped the scan and the second "a" is kept
C2_Witness ==
    /\ pc = "assemble" /\ ~collapse_header
    /\ HeaderCols = ExampleUnnested
    /\ header_matrix_t[1] = <<<<"a">>, EMPTY, <<"a">>>>
    /\ header_matrix_t[2] = <<<<"x">>, <<"q">>, <<"y">>>>

\* the rows of the document being merged, as split_dict returned them
SplitRows == split_dict(self_jsons[idx], row_split_rules)

\* the rows of a document have just been merged (line 80)
MergedState == pc = "loop" /\ idx >= 1

Directive == StrSplitOnce(merge_split_rows[1], ":")

DirectiveGiven == merge_split_rows # <<>> /\ ~MergeRaises(merge_split_rows)

\* C3 as stated: a merge directive whose rule_name is a key of none of the
\* rows of the document is a pass-through: the rows after the merge are the
\* rows before it, all kept, in the same order.
C3_Claim ==
    (/\ MergedState
     /\ DirectiveGiven
     /\ \A i \in 1..Len(SplitRows) : ~HasKey(SplitRows[i], Directive[1]))
        => merged_jsons = SplitRows

\* the rows of SplitRows with the indices in S, in order
RowsAt(S) ==
    LET In(i) == i \in S
        sel == SelectSeq([i \in 1..Len(SplitRows) |-> i], In)
    IN  [n \in 1..Len(sel) |-> SplitRows[sel[n]]]

\* C4 as stated: with G the row without rule_name and F the row whose
\* rule_name is first_key, the output is merge(G, F), or the one of them that
\* exists, followed by all other rows in their order; no other row is
\* altered or lost.
C4_Claim ==
    (MergedState /\ DirectiveGiven) =>
        LET n  == Len(SplitRows)
            Gs == {i \in 1..n : ~HasKey(SplitRows[i], Directive[1])}
            Fs == {i \in 1..n :
                     Sub(SplitRows[i], Directive[1]) = <<Leaf(<<>>, Directive[2])>>}
            g  == IF Gs = {} THEN 0 ELSE Max(Gs)
            f  == IF Fs = {} THEN 0 ELSE Max(Fs)
            first == IF g > 0 /\ f > 0
                     THEN <<merge_dict(SplitRows[g], SplitRows[f])>>
                     ELSE IF g > 0 THEN <<SplitRows[g]>>
                     ELSE IF f > 0 THEN <<SplitRows[f]>>
                     ELSE <<>>
        IN  merged_jsons = first \o RowsAt((1..n) \ {g, f})

\* the column paths of the frame, in column order
RECURSIVE ColumnPathsAcc(_, _)
ColumnPathsAcc(leaves, acc) ==
    IF leaves = <<>> THEN acc
    ELSE ColumnPathsAcc(Tail(leaves),
                        IF Contains(acc, Head(leaves).k) THEN acc
                        ELSE Append(acc, Head(leaves).k))

ColumnPaths ==
    ColumnPathsAcc(Concat([r \in 1..Len(jsons) |-> FlatRecord(jsons[r])]), <<>>)

\* the distinct column paths of the flat rows
ColumnPathSet ==
    UNION {{jsons[r][i].k : i \in 1..Len(jsons[r])} : r \in 1..Len(jsons)}

\* C5 as stated: every row of the assembled matrix has exactly C cells, C the
\* number of distinct column paths; a row that lacks a column has '' in its
\* cell; a value that holds the delimiter or a newline still takes one cell,
\* and adds no row.
C5_Claim ==
    pc = "transpose" =>
        /\ \A r \in 1..Len(final_matrix) :
              Len(final_matrix[r]) = Cardinality(ColumnPathSet)
        /\ Len(contents_matrix) = Len(jsons)
        /\ \A r \in 1..Len(jsons) : \A c \in 1..Len(ColumnPaths) :
              (\A i \in 1..Len(jsons[r]) : jsons[r][i].k # ColumnPaths[c])
                 => contents_matrix[r][c] = EMPTY

\* C6 as stated: a converter that holds no document returns a text, it does
\* not raise.
C6_Claim == qcs = <<>> => pc # "raised"

\* the rows document i contributes
DocRows(i) ==
    MergedRows(split_dict(self_jsons[i], row_split_rules), merge_split_rows)

Sep == IF collapse_header THEN SEP_COLLAPSED_HEADER ELSE SEP

\* the data rows of the matrix that are written for the rows of document i
DocBlock(i) ==
    LET cols == Columns(jsons, Sep)
        rows == DocRows(i)
        recs == [r \in 1..Len(rows) |->
                   CsvRecord([c \in 1..Len(cols) |-> Cell(rows[r], cols[c], Sep)])]
    IN  IF rows = <<>> THEN <<>> ELSE ContentsMatrix(StrJoin(NL, recs))

\* C7: the rows of the documents follow the order of the input list: the
\* documents are loaded in input order, the row list is the rows of document
\* 1, then those of document 2, ..., each computed from its own document
\* alone, and the data rows of the untransposed matrix are the rows written
\* for document 1, then those for document 2, ...
C7_DocumentOrder ==
    /\ self_jsons = SubSeq(qcs, 1, Len(self_jsons))
    /\ pc \in {"loop", "merge", "header", "dedup", "assemble", "transpose",
               "join", "done"} =>
          LET k == IF pc = "merge" THEN idx - 1 ELSE idx
          IN  jsons = Concat([i \in 1..k |-> DocRows(i)])
    /\ pc \in {"transpose", "join", "done"} =>
          /\ contents_matrix =
                Concat([i \in 1..Len(self_jsons) |-> DocBlock(i)])
          /\ (pc = "transpose" \/ ~transpose) =>
                final_matrix = header_matrix_t \o contents_matrix

\* two documents, the first split in several rows and merged, are written
\* without transposing
C7_Witness ==
    /\ pc = "done" /\ ~transpose
    /\ Len(self_jsons) = 2
    /\ Len(DocRows(1)) >= 2
    /\ Len(DocRows(1)) < Len(split_dict(self_jsons[1], row_split_rules))
    /\ Len(DocRows(2)) >= 1
    /\ self_jsons[1] # self_jsons[2]
    /\ Len(contents_matrix) = Len(DocRows(1)) + Len(DocRows(2))

Malformed == MergeRaises(merge_split_rows) \/ SplitRaises(row_split_rules)

\* C8 as stated: a rule or directive string without ':' makes the run fail
\* before any document is split or merged, for every input list.
C8_Claim ==
    Malformed => /\ splitted_jsons = <<>>
                 /\ jsons = <<>>
                 /\ pc # "done"

\* C9: for a rectangular matrix M of header rows followed by data rows, the
\* transpose step gives T with as many rows as M has columns and
\* T[i][j] = M[j][i], and the step applied to T gives M back.
C9_Transpose ==
    LET M == header_matrix_t \o contents_matrix
    IN  /\ pc = "join" =>
              /\ Len(final_matrix) = Len(M[1])
              /\ \A i \in 1..Len(final_matrix) :
                    /\ Len(final_matrix[i]) = Len(M)
                    /\ \A j \in 1..Len(M) : final_matrix[i][j] = M[j][i]
        /\ pc = "again" => final_matrix = M

\* a matrix that is not square, with a header row and a data row that
\* differ, transposed twice
C9_Witness ==
    /\ pc = "again"
    /\ header_matrix_t # <<>> /\ contents_matrix # <<>>
    /\ final_matrix = header_matrix_t \o contents_matrix
    /\ Len(final_matrix) # Len(final_matrix[1])
    /\ header_matrix_t[1] # contents_matrix[1]
    /\ \E j \in 1..Len(final_matrix[1]) :
          final_matrix[1][j] # final_matrix[1][1]

\* C10: in collapsed-header mode the header is one row, the cell of each
\* column its full path joined with '.', in column order, with no splitting,
\* alignment or deduplication, and the data rows are those of multi-row mode.
C10_CollapsedHeader ==
    (collapse_header /\ pc \in {"assemble", "transpose", "join", "done"}) =>
        /\ header_matrix_t =
              <<[c \in 1..Len(ColumnPaths) |->
                   StrJoin(SEP_COLLAPSED_HEADER, ColumnPaths[c])]>>
        /\ pc # "assemble" =>
              contents_matrix = ContentsMatrix(StrSplitOnce(Tsv(jsons, SEP), NL)[2])

\* a collapsed header with two columns below the same parent, both named in
\* full
C10_Witness ==
    /\ collapse_header /\ pc = "done"
    /\ Len(header_matrix_t) = 1
    /\ \E c \in 1..(Len(header_matrix_t[1]) - 1) :
          /\ header_matrix_t[1][c] = <<"a", SEP_COLLAPSED_HEADER, "x">>
          /\ header_matrix_t[1][c + 1] = <<"a", SEP_COLLAPSED_HEADER, "y">>
    /\ Len(contents_matrix) >= 2

====
